---------------------------- MODULE Spec2Model ----------------------------
(***************************************************************************)
(* A model of src/src/App.js: the user directory single-page application.  *)
(*                                                                         *)
(* JavaScript strings are sequences of one-character strings, so that      *)
(* trim, toLowerCase, includes and the e-mail regular expression are       *)
(* computed character by character.  The character U+2014 (the             *)
(* placeholder dash) is written as the one-element sequence Dash.          *)
(*                                                                         *)
(* Four specifications share the module:                                   *)
(*   SpecFilter    useUsersFiltered applied to drawn collections/searches  *)
(*   SpecValidate  the UserForm errors memo applied to drawn name/email    *)
(*   Spec          one mount of ListPage with AddUserButton and UserForm   *)
(*   SpecDetail    one mount of UserDetailsPage                            *)
(***************************************************************************)
EXTENDS Integers, Sequences, FiniteSets, TLC

(***************************************************************************)
(* Bounds of the model.                                                    *)
(***************************************************************************)
\* longest collection handed to the filter in SpecFilter
MaxFilterUsers == 2
\* longest search string drawn in SpecFilter
MaxQueryLen == 3
\* longest e-mail string drawn in SpecValidate
MaxEmailLen == 6
\* number of successful add-user submits in one ListPage mount
MaxAdds == 2
\* number of records the remote directory holds
NumRemote == 2
\* number of id changes in one UserDetailsPage mount
MaxNav == 2

(***************************************************************************)
(* State.                                                                  *)
(***************************************************************************)
VARIABLES
  \* SpecFilter: the inputs of one render of the hook and its memoised result
  fUsers, fSearch, fResult, fRendered,
  \* SpecValidate: the inputs of the errors memo and its result
  vName, vEmail, vErrors, vComputed,
  \* ListPage: const [users, setUsers], const [search, setSearch]
  users, search,
  \* ListPage: the promise of the collection fetch: "pending", "resolved", "failed"
  fetchState,
  \* AddUserButton: const [open, setOpen]
  open,
  \* UserForm: const [name, ..], [email, ..], [company, ..], [touched, ..]
  name, email, company, touched,
  \* the value Date.now() returns
  now,
  \* history: the callbacks the most recent UserForm handler invoked, in order
  lastCalls,
  \* history: one entry per addUser call of this mount, oldest first
  adds,
  \* UserDetailsPage: const { id } = useParams(), const [user, setUser]
  id, user,
  \* UserDetailsPage: the single-record fetches still pending
  inflight,
  \* history: the single-record fetches that resolved or rejected
  settled,
  \* history: how often the id path parameter changed in this mount
  idChanges

filterVars == <<fUsers, fSearch, fResult, fRendered>>
validateVars == <<vName, vEmail, vErrors, vComputed>>
formVars == <<name, email, company, touched>>
listVars == <<users, search, fetchState, open, name, email, company, touched, now, lastCalls, adds>>
detailVars == <<id, user, inflight, settled, idChanges>>
vars == <<filterVars, validateVars, listVars, detailVars>>
\* the state outside each component
notFilterVars == <<validateVars, listVars, detailVars>>
notValidateVars == <<filterVars, listVars, detailVars>>
notListVars == <<filterVars, validateVars, detailVars>>
notDetailVars == <<filterVars, validateVars, listVars>>

(***************************************************************************)
(* Strings.                                                                *)
(***************************************************************************)
\* the characters matched by \s and removed by String.prototype.trim
Whitespace == {" "}

\* the placeholder dash, one character
Dash == <<"EMDASH">>

\* the value of a property that an object does not have
Undefined == <<"undefined">>

\* String.prototype.toLowerCase on one character
LowerChar(c) ==
  CASE c = "A" -> "a"
    [] c = "B" -> "b"
    [] c = "N" -> "n"
    [] OTHER -> c

toLowerCase(s) == [i \in 1..Len(s) |-> LowerChar(s[i])]

RECURSIVE trimStart(_)
trimStart(s) ==
  IF s # <<>> /\ Head(s) \in Whitespace THEN trimStart(Tail(s)) ELSE s

RECURSIVE trimEnd(_)
trimEnd(s) ==
  IF s # <<>> /\ s[Len(s)] \in Whitespace
    THEN trimEnd(SubSeq(s, 1, Len(s) - 1))
    ELSE s

trim(s) == trimEnd(trimStart(s))

\* String.prototype.includes
includes(s, q) ==
  \E i \in 0..(Len(s) - Len(q)) : SubSeq(s, i + 1, i + Len(q)) = q

\* !v for a string or an absent value
Falsy(v) == v = <<>> \/ v = Undefined

\* all strings over alphabet a of length at most n
RECURSIVE StringsUpTo(_, _)
StringsUpTo(a, n) ==
  IF n = 0 THEN {<<>>}
  ELSE LET shorter == StringsUpTo(a, n - 1)
       IN shorter \cup {Append(s, c) : s \in shorter, c \in a}

\* all sequences over set S of length at most n
RECURSIVE SeqsUpTo(_, _)
SeqsUpTo(S, n) ==
  IF n = 0 THEN {<<>>}
  ELSE LET shorter == SeqsUpTo(S, n - 1)
       IN shorter \cup {Append(s, x) : s \in shorter, x \in S}

(***************************************************************************)
(* useUsersFiltered (App.js 12-22).                                        *)
(***************************************************************************)
\* the hook with the e-mail disjunct left out
useUsersFilteredDropsEmail(list, query) ==
  LET q == toLowerCase(trim(query))
  IN IF q = <<>> THEN list
     ELSE SelectSeq(list, LAMBDA u : includes(toLowerCase(u.name), q))

useUsersFiltered(list, query) ==
  LET q == toLowerCase(trim(query))
  IN IF q = <<>> THEN list
     ELSE SelectSeq(list,
            LAMBDA u : \/ includes(toLowerCase(u.name), q)
                       \/ includes(toLowerCase(u.email), q))

(***************************************************************************)
(* The remote user directory (jsonplaceholder.typicode.com/users): the     *)
(* records it serves.  A property a record lacks is absent from its        *)
(* domain.  Record ids are 1..NumRemote; no record has another id.         *)
(***************************************************************************)
RemoteAddress ==
  [street |-> <<"K">>, suite |-> <<"5">>, city |-> <<"G">>, zipcode |-> <<"9">>]

RemoteRecord(i) ==
  CASE i % 3 = 1 ->
         [id |-> i, name |-> <<"A", "n", "n">>, email |-> <<"a", "@", "b", ".", "c">>,
          company |-> [name |-> <<"R">>], phone |-> <<"1">>, website |-> <<"w">>,
          address |-> RemoteAddress]
    [] i % 3 = 2 ->
         [id |-> i, name |-> <<"B", "o">>, email |-> <<"B", "@", "a", ".", "a">>,
          phone |-> <<"2">>]
    [] OTHER ->
         [id |-> i, name |-> <<"a", "b">>, email |-> <<"n", "@", "z", ".", "z">>,
          company |-> [name |-> <<"S">>], website |-> <<"v">>,
          address |-> RemoteAddress]

RemoteIds == 1..NumRemote

\* the bodies the collection endpoint can answer with: the directory's first k records
CollectionBodies == {[i \in 1..k |-> RemoteRecord(i)] : k \in 0..NumRemote}

\* the body of the single-record endpoint: the record, or {} with status 404
EmptyObject == <<>>

SingleBody(i) == IF i \in RemoteIds THEN RemoteRecord(i) ELSE EmptyObject

\* obj.f, undefined when obj has no property f
Get(obj, f) == IF f \in DOMAIN obj THEN obj[f] ELSE Undefined

\* obj.company?.name
CompanyName(obj) ==
  IF "company" \in DOMAIN obj THEN Get(obj.company, "name") ELSE Undefined

EmptyFn == [k \in {} |-> ""]

(***************************************************************************)
(* SpecFilter: one render of useUsersFiltered with drawn inputs.           *)
(***************************************************************************)
FilterNames == {<<"A", "b">>, <<"b", " ", "a">>, <<"B">>}
FilterEmails == {<<"a", "@", "b">>, <<"B", "@", "A">>}
FilterPool == {[name |-> n, email |-> e] : n \in FilterNames, e \in FilterEmails}
FilterAlphabet == {"a", "B", " ", "@"}

FilterInit ==
  /\ fUsers \in SeqsUpTo(FilterPool, MaxFilterUsers)
  /\ fSearch \in StringsUpTo(FilterAlphabet, MaxQueryLen)
  /\ fResult = <<>>
  /\ fRendered = FALSE

FilterIdle ==
  /\ fUsers = <<>>
  /\ fSearch = <<>>
  /\ fResult = <<>>
  /\ fRendered = FALSE

\* one render: the memo is computed from the current users and search
FilterRender ==
  /\ ~fRendered
  /\ fResult' = useUsersFiltered(fUsers, fSearch)
  /\ fRendered' = TRUE
  /\ UNCHANGED <<fUsers, fSearch, notFilterVars>>

(***************************************************************************)
(* UserForm validation (App.js 70-76).                                     *)
(***************************************************************************)
\* [^\s@]+ against the whole of s
NonSpaceNonAt(s) ==
  /\ s # <<>>
  /\ \A k \in 1..Len(s) : s[k] \notin Whitespace /\ s[k] # "@"

\* /^[^\s@]+@[^\s@]+\.[^\s@]+$/.test(s)
EmailRegexTest(s) ==
  \E at \in 1..Len(s), dot \in 1..Len(s) :
    /\ at < dot
    /\ s[at] = "@"
    /\ s[dot] = "."
    /\ NonSpaceNonAt(SubSeq(s, 1, at - 1))
    /\ NonSpaceNonAt(SubSeq(s, at + 1, dot - 1))
    /\ NonSpaceNonAt(SubSeq(s, dot + 1, Len(s)))

\* the errors memo with the pattern tested against the trimmed e-mail
errorsTestsTrimmed(n, e) ==
  LET emailMsg == IF trim(e) = <<>> THEN "Email is required"
                  ELSE IF ~EmailRegexTest(trim(e)) THEN "Invalid email"
                  ELSE ""
      keys == (IF trim(n) = <<>> THEN {"name"} ELSE {})
                \cup (IF emailMsg # "" THEN {"email"} ELSE {})
  IN [k \in keys |-> IF k = "name" THEN "Name is required" ELSE emailMsg]

\* the object es: its keys are the fields in error
errors(n, e) ==
  LET emailMsg == IF trim(e) = <<>> THEN "Email is required"
                  ELSE IF ~EmailRegexTest(e) THEN "Invalid email"
                  ELSE ""
      keys == (IF trim(n) = <<>> THEN {"name"} ELSE {})
                \cup (IF emailMsg # "" THEN {"email"} ELSE {})
  IN [k \in keys |-> IF k = "name" THEN "Name is required" ELSE emailMsg]

(***************************************************************************)
(* SpecValidate: the errors memo computed for drawn name and e-mail.       *)
(***************************************************************************)
ValidateAlphabet == {"a", " ", "@", "."}
ValidateNames == {<<>>, <<" ">>, <<"a">>, <<" ", "a">>}

ValidateInit ==
  /\ vName \in ValidateNames
  /\ vEmail \in StringsUpTo(ValidateAlphabet, MaxEmailLen)
  /\ vErrors = EmptyFn
  /\ vComputed = FALSE

ValidateIdle ==
  /\ vName = <<>>
  /\ vEmail = <<>>
  /\ vErrors = EmptyFn
  /\ vComputed = FALSE

ValidateRender ==
  /\ ~vComputed
  /\ vErrors' = errors(vName, vEmail)
  /\ vComputed' = TRUE
  /\ UNCHANGED <<vName, vEmail, notValidateVars>>

(***************************************************************************)
(* ListPage, AddUserButton, UserForm and UsersTable (App.js 49-175).       *)
(***************************************************************************)
\* JavaScript null
Null == [null |-> TRUE]

\* v || "—"
OrDash(v) == IF Falsy(v) THEN Dash ELSE v

\* the mapping of one fetched record into the session shape (App.js 151-159)
MapRemote(u) ==
  [id |-> u.id,
   name |-> u.name,
   email |-> u.email,
   company |-> OrDash(CompanyName(u)),
   phone |-> OrDash(Get(u, "phone")),
   website |-> OrDash(Get(u, "website")),
   address |-> IF "address" \in DOMAIN u THEN u.address ELSE Null]

\* Date.now() is milliseconds since 1970: larger than every id of the directory
ClockBase == NumRemote + 1

\* the values typed into the inputs
NameInputs == {<<>>, <<"A", "n">>}
EmailInputs ==
  {<<>>, <<"b", "@", "x">>, <<"a", "@", "b", ".", "c">>, <<" ", "a", "@", "b", ".", "c">>}
CompanyInputs == {<<>>, <<"C">>}
SearchInputs == {<<>>, <<" ">>, <<" ", "a", "N">>, <<"z">>}

ListInit ==
  /\ users = <<>>
  /\ search = <<>>
  /\ fetchState = "pending"
  /\ open = FALSE
  /\ name = <<>>
  /\ email = <<>>
  /\ company = <<>>
  /\ touched = FALSE
  /\ now = ClockBase
  /\ lastCalls = <<>>
  /\ adds = <<>>

\* the collection fetch resolves and its body parses: setUsers(data.map(..))
FetchResolve ==
  /\ fetchState = "pending"
  /\ \E data \in CollectionBodies :
       users' = [i \in 1..Len(data) |-> MapRemote(data[i])]
  /\ fetchState' = "resolved"
  /\ UNCHANGED <<search, open, formVars, now, lastCalls, adds, notListVars>>

\* a rejection handler that empties the collection
FetchRejectClears ==
  /\ fetchState = "pending"
  /\ fetchState' = "failed"
  /\ users' = <<>>
  /\ UNCHANGED <<search, open, formVars, now, lastCalls, adds, notListVars>>

\* the fetch rejects, or res.json() rejects: no handler is attached
FetchReject ==
  /\ fetchState = "pending"
  /\ fetchState' = "failed"
  /\ UNCHANGED <<users, search, open, formVars, now, lastCalls, adds, notListVars>>

\* SearchBar onChange (App.js 42)
setSearch ==
  /\ \E v \in SearchInputs : search' = v
  /\ lastCalls' = <<>>
  /\ UNCHANGED <<users, fetchState, open, formVars, now, adds, notListVars>>

\* AddUserButton onClick (App.js 54): a closed form mounts with its initial state
setOpen ==
  /\ open' = TRUE
  /\ lastCalls' = <<>>
  /\ UNCHANGED <<users, search, fetchState, formVars, now, adds, notListVars>>

\* UserForm onChange handlers (App.js 94, 101, 106)
setName ==
  /\ open
  /\ \E v \in NameInputs : name' = v
  /\ lastCalls' = <<>>
  /\ UNCHANGED <<users, search, fetchState, open, email, company, touched, now, adds, notListVars>>

setEmail ==
  /\ open
  /\ \E v \in EmailInputs : email' = v
  /\ lastCalls' = <<>>
  /\ UNCHANGED <<users, search, fetchState, open, name, company, touched, now, adds, notListVars>>

setCompany ==
  /\ open
  /\ \E v \in CompanyInputs : company' = v
  /\ lastCalls' = <<>>
  /\ UNCHANGED <<users, search, fetchState, open, name, email, touched, now, adds, notListVars>>

\* the form unmounts: its state is discarded
FormUnmounted ==
  /\ open' = FALSE
  /\ name' = <<>>
  /\ email' = <<>>
  /\ company' = <<>>
  /\ touched' = FALSE

\* the Cancel button and the backdrop (App.js 87, 109): onClose
onClose ==
  /\ open
  /\ FormUnmounted
  /\ lastCalls' = <<[fn |-> "onClose"]>>
  /\ UNCHANGED <<users, search, fetchState, now, adds, notListVars>>

\* addUser with the new entry put last
addUserAppends(draft) ==
  Append(users, [id |-> now, name |-> draft.name, email |-> draft.email,
                 company |-> draft.company])

\* addUser with the collection's length as the id
addUserLengthId(draft) ==
  <<[id |-> Len(users), name |-> draft.name, email |-> draft.email,
     company |-> draft.company]>> \o users

\* addUser without the spread of the previous collection
addUserReplaces(draft) ==
  <<[id |-> now, name |-> draft.name, email |-> draft.email,
     company |-> draft.company]>>

\* the collection addUser hands to setUsers (App.js 162-164)
addUser(draft) ==
  <<[id |-> now, name |-> draft.name, email |-> draft.email,
     company |-> draft.company]>> \o users

\* submit without the early return on errors
submitIgnoresErrors ==
  /\ open
  /\ Len(adds) < MaxAdds
  /\ LET draft == [name |-> name, email |-> email, company |-> company]
     IN /\ users' = addUser(draft)
        /\ adds' = Append(adds, [user |-> users'[1], at |-> now, fetchWas |-> fetchState])
        /\ lastCalls' = <<[fn |-> "addUser", arg |-> draft], [fn |-> "onClose"]>>
  /\ FormUnmounted
  /\ UNCHANGED <<search, fetchState, now, notListVars>>

\* UserForm onSubmit (App.js 78-84)
submit ==
  /\ open
  /\ IF Cardinality(DOMAIN errors(name, email)) # 0
       THEN /\ touched' = TRUE
            /\ lastCalls' = <<>>
            /\ UNCHANGED <<users, search, fetchState, open, name, email, company, now, adds, notListVars>>
       ELSE /\ Len(adds) < MaxAdds
            /\ LET draft == [name |-> name, email |-> email, company |-> company]
                   next == addUser(draft)
               IN /\ users' = next
                  /\ adds' = Append(adds, [user |-> [id |-> now, name |-> name,
                                                     email |-> email, company |-> company],
                                           at |-> now, fetchWas |-> fetchState])
                  /\ lastCalls' = <<[fn |-> "addUser", arg |-> draft], [fn |-> "onClose"]>>
            /\ FormUnmounted
            /\ UNCHANGED <<search, fetchState, now, notListVars>>

\* the clock advances.  Only the order and coincidence of the instants of the
\* addUser calls is observable, so the clock is advanced one unit, and only
\* past an instant at which addUser was called.
Tick ==
  /\ \E i \in 1..Len(adds) : adds[i].at = now
  /\ now' = now + 1
  /\ UNCHANGED <<users, search, fetchState, open, formVars, lastCalls, adds, notListVars>>

\* const filteredUsers = useUsersFiltered(users, search)
filteredUsers == useUsersFiltered(users, search)

\* what UsersTable renders for a list of users (App.js 117-141)
UsersTable(list) ==
  IF Len(list) = 0
    THEN [kind |-> "message", text |-> "No users found."]
    ELSE [kind |-> "table",
          rows |-> [i \in 1..Len(list) |->
                     [key |-> list[i].id, name |-> list[i].name, email |-> list[i].email,
                      company |-> OrDash(Get(list[i], "company"))]]]

\* the error texts UserForm shows (App.js 95, 102)
ErrorsShown == IF open /\ touched THEN errors(name, email) ELSE EmptyFn

(***************************************************************************)
(* UserDetailsPage and DetailRow (App.js 177-216).                         *)
(***************************************************************************)
\* the ids a route can name: the directory's ids and one id the directory lacks
RouteIds == 1..(NumRemote + 1)

\* the number of single-record fetches issued so far
Issued == Cardinality(inflight) + Cardinality(settled)

DetailInit ==
  /\ id \in RouteIds
  /\ user = Null
  /\ inflight = {[req |-> 1, id |-> id]}
  /\ settled = {}
  /\ idChanges = 0

DetailIdle ==
  /\ id = 0
  /\ user = Null
  /\ inflight = {}
  /\ settled = {}
  /\ idChanges = 0

\* an effect on [id] that also clears the loaded user
ChangeIdResetsUser ==
  /\ idChanges < MaxNav
  /\ \E j \in RouteIds \ {id} :
       /\ id' = j
       /\ inflight' = inflight \cup {[req |-> Issued + 1, id |-> j]}
  /\ user' = Null
  /\ idChanges' = idChanges + 1
  /\ UNCHANGED <<settled, notDetailVars>>

\* the id path parameter changes: the effect on [id] runs again (App.js 191-195)
ChangeId ==
  /\ idChanges < MaxNav
  /\ \E j \in RouteIds \ {id} :
       /\ id' = j
       /\ inflight' = inflight \cup {[req |-> Issued + 1, id |-> j]}
  /\ idChanges' = idChanges + 1
  /\ UNCHANGED <<user, settled, notDetailVars>>

\* a pending fetch resolves and its body parses: setUser(u) (App.js 193-194)
Deliver ==
  \E r \in inflight :
    /\ user' = SingleBody(r.id)
    /\ inflight' = inflight \ {r}
    /\ settled' = settled \cup {[req |-> r.req, id |-> r.id, how |-> "json"]}
    /\ UNCHANGED <<id, idChanges, notDetailVars>>

\* a pending fetch rejects: no handler is attached
Reject ==
  \E r \in inflight :
    /\ inflight' = inflight \ {r}
    /\ settled' = settled \cup {[req |-> r.req, id |-> r.id, how |-> "rejected"]}
    /\ UNCHANGED <<id, user, idChanges, notDetailVars>>

\* what React renders for {v}: nothing for undefined
Text(v) == IF v = Undefined THEN <<>> ELSE v

\* ${v} in a template literal
Interpolate(v) ==
  IF v = Undefined THEN <<"u", "n", "d", "e", "f", "i", "n", "e", "d">> ELSE v

\* const addressText (App.js 199-201)
addressText(u) ==
  IF "address" \in DOMAIN u /\ u.address # Null
    THEN Interpolate(Get(u.address, "street")) \o <<",", " ">>
           \o Interpolate(Get(u.address, "suite")) \o <<",", " ">>
           \o Interpolate(Get(u.address, "city")) \o <<" ">>
           \o Interpolate(Get(u.address, "zipcode"))
    ELSE Dash

\* the value cell of DetailRow (App.js 181)
DetailRow(value) == OrDash(value)

\* the page with an empty object treated like no object
UserDetailsPageEmptyIsLoading(u) ==
  IF u = Null \/ u = EmptyObject
    THEN [kind |-> "message", text |-> "Loading..."]
    ELSE [kind |-> "detail",
          name |-> Text(Get(u, "name")),
          company |-> Text(CompanyName(u)),
          email |-> DetailRow(Get(u, "email")),
          phone |-> DetailRow(Get(u, "phone")),
          website |-> DetailRow(Get(u, "website")),
          address |-> DetailRow(addressText(u))]

\* what UserDetailsPage renders for the state user = u (App.js 197-215)
UserDetailsPage(u) ==
  IF u = Null
    THEN [kind |-> "message", text |-> "Loading..."]
    ELSE [kind |-> "detail",
          name |-> Text(Get(u, "name")),
          company |-> Text(CompanyName(u)),
          email |-> DetailRow(Get(u, "email")),
          phone |-> DetailRow(Get(u, "phone")),
          website |-> DetailRow(Get(u, "website")),
          address |-> DetailRow(addressText(u))]

(***************************************************************************)
(* The specifications.                                                     *)
(***************************************************************************)
Init == FilterIdle /\ ValidateIdle /\ ListInit /\ DetailIdle

Next ==
  \/ FetchResolve
  \/ FetchReject
  \/ setSearch
  \/ setOpen
  \/ setName
  \/ setEmail
  \/ setCompany
  \/ onClose
  \/ submit
  \/ Tick

Spec == Init /\ [][Next]_vars

InitDetail == FilterIdle /\ ValidateIdle /\ ListInit /\ DetailInit

NextDetail ==
  \/ ChangeId
  \/ Deliver
  \/ Reject

SpecDetail == InitDetail /\ [][NextDetail]_vars

InitFilter == FilterInit /\ ValidateIdle /\ ListInit /\ DetailIdle

NextFilter == FilterRender

SpecFilter == InitFilter /\ [][NextFilter]_vars

InitValidate == FilterIdle /\ ValidateInit /\ ListInit /\ DetailIdle

NextValidate == ValidateRender

SpecValidate == InitValidate /\ [][NextValidate]_vars

(***************************************************************************)
(* Vocabulary of the properties, stated without the operators of the       *)
(* program.                                                                *)
(***************************************************************************)
AllWhitespace(s) == \A i \in 1..Len(s) : s[i] \in Whitespace

\* s without its leading and trailing whitespace
Trimmed(s) ==
  LET inked == {i \in 1..Len(s) : s[i] \notin Whitespace}
  IN IF inked = {} THEN <<>>
     ELSE SubSeq(s, CHOOSE i \in inked : \A j \in inked : i <= j,
                    CHOOSE i \in inked : \A j \in inked : i >= j)

\* text contains q as a substring, letters compared without regard to case
ContainsIgnoringCase(text, q) ==
  \E k \in 0..(Len(text) - Len(q)) :
    \A m \in 1..Len(q) : LowerChar(text[k + m]) = LowerChar(q[m])

MatchesSearch(u, s) ==
  \/ ContainsIgnoringCase(u.name, Trimmed(s))
  \/ ContainsIgnoringCase(u.email, Trimmed(s))

\* res lists exactly the entries of list at the indexes I, in the order of list
IsOrderedSelection(res, list, I) ==
  /\ Len(res) = Cardinality(I)
  /\ \A i \in I : res[Cardinality({j \in I : j <= i})] = list[i]

\* local "@" domain "." tld, each part one or more characters, none a space or "@"
EmailShape(s) ==
  \E at \in 2..Len(s) :
    /\ s[at] = "@"
    /\ \A k \in (1..Len(s)) \ {at} : s[k] \notin Whitespace /\ s[k] # "@"
    /\ \E dot \in (at + 2)..(Len(s) - 1) : s[dot] = "."

\* the verdict on the e-mail in an errors object
EmailVerdict(es) == IF "email" \in DOMAIN es THEN es["email"] ELSE "valid"

(***************************************************************************)
(* C1.  For every collection and search string the filter returns the      *)
(* order-preserving subsequence of exactly the users whose name or e-mail  *)
(* contains the trimmed search string, case-insensitively; an empty or     *)
(* whitespace-only search returns the collection unchanged.                *)
(***************************************************************************)
C1_FilterExact ==
  fRendered =>
    IF AllWhitespace(fSearch)
      THEN fResult = fUsers
      ELSE IsOrderedSelection(fResult, fUsers,
             {i \in 1..Len(fUsers) : MatchesSearch(fUsers[i], fSearch)})

\* a padded search selects one of two users, and only through the case folding
C1_Witness ==
  /\ fRendered
  /\ fSearch # Trimmed(fSearch)
  /\ Len(fUsers) = 2
  /\ fResult = <<fUsers[2]>>
  /\ fUsers[1] # fUsers[2]
  /\ ~includes(fUsers[2].name, Trimmed(fSearch))
  /\ ~includes(fUsers[2].email, Trimmed(fSearch))

(***************************************************************************)
(* C3.  The validation result: "Name is required" exactly when the name is *)
(* empty after trimming; "Email is required" exactly when the e-mail is    *)
(* empty after trimming; otherwise "Invalid email" exactly when the e-mail *)
(* lacks the shape; no other key.                                          *)
(***************************************************************************)
ValidationRules ==
  /\ DOMAIN vErrors \subseteq {"name", "email"}
  /\ "name" \in DOMAIN vErrors <=> AllWhitespace(vName)
  /\ "name" \in DOMAIN vErrors => vErrors["name"] = "Name is required"
  /\ EmailVerdict(vErrors) = "Email is required" <=> AllWhitespace(vEmail)
  /\ ~AllWhitespace(vEmail) =>
       (EmailVerdict(vErrors) = "Invalid email" <=> ~EmailShape(vEmail))
  /\ EmailVerdict(vErrors) \in {"Email is required", "Invalid email", "valid"}

\* C3 as claimed: the rules, and an e-mail that has the shape once trimmed is
\* judged as its trimmed form is
C3_TrimmedJudgedAlike ==
  vComputed =>
    /\ ValidationRules
    /\ EmailShape(Trimmed(vEmail)) =>
         EmailVerdict(vErrors) = EmailVerdict(errors(vName, Trimmed(vEmail)))

\* C3 as amended: the rules, and the pattern is tested against the e-mail as
\* typed, so an e-mail that has the shape only once trimmed is "Invalid email"
C3_UntrimmedTested ==
  vComputed =>
    /\ ValidationRules
    /\ EmailShape(Trimmed(vEmail)) /\ vEmail # Trimmed(vEmail) =>
         EmailVerdict(vErrors) = "Invalid email"

\* a padded e-mail of the right shape has been judged invalid, the name accepted
C3_Witness ==
  /\ vComputed
  /\ EmailShape(Trimmed(vEmail))
  /\ vEmail # Trimmed(vEmail)
  /\ EmailVerdict(vErrors) = "Invalid email"
  /\ "name" \notin DOMAIN vErrors

(***************************************************************************)
(* C2.  A submit of UserForm: with a validation error no callback is       *)
(* invoked, the form stays open and touched with errors shown and the      *)
(* collection is unchanged; otherwise addUser is invoked once with exactly *)
(* the draft and onClose is invoked after it.                              *)
(***************************************************************************)
DraftInvalid == AllWhitespace(name) \/ AllWhitespace(email) \/ ~EmailShape(email)

C2_SubmitContract ==
  [][submit =>
      IF DraftInvalid
        THEN /\ lastCalls' = <<>>
             /\ open' /\ touched'
             /\ DOMAIN ErrorsShown' # {}
             /\ users' = users
             /\ <<name', email', company'>> = <<name, email, company>>
        ELSE /\ lastCalls' = <<[fn |-> "addUser",
                                arg |-> [name |-> name, email |-> email,
                                         company |-> company]],
                               [fn |-> "onClose"]>>
             /\ ~open'
             /\ Len(users') = Len(users) + 1]_vars

\* after one accepted submit, a later submit was refused and shows its errors
C2_Witness ==
  /\ adds # <<>>
  /\ open /\ touched
  /\ lastCalls = <<>>
  /\ DOMAIN ErrorsShown # {}

(***************************************************************************)
(* C4.  A successful add-user submit puts exactly one new first row, the   *)
(* new user's, into the rendered table and keeps the other rows in order.  *)
(***************************************************************************)
\* the step is an accepted submit
AddStep == Len(adds') = Len(adds) + 1

\* the row that shows user u
RowOf(u) ==
  [key |-> u.id, name |-> u.name, email |-> u.email,
   company |-> IF u.company = <<>> THEN Dash ELSE u.company]

RenderedRows ==
  LET view == UsersTable(filteredUsers)
  IN IF view.kind = "table" THEN view.rows ELSE <<>>

\* C4 as claimed: for any search string
C4_AlwaysOneNewRow ==
  [][AddStep =>
      RenderedRows' = <<RowOf(adds'[Len(adds')].user)>> \o RenderedRows]_vars

\* C4 as amended: when the new user matches the search (always so for an empty
\* or whitespace-only search); otherwise the rendered table is unchanged
C4_NewRowIfMatching ==
  [][AddStep =>
      IF MatchesSearch(adds'[Len(adds')].user, search)
        THEN RenderedRows' = <<RowOf(adds'[Len(adds')].user)>> \o RenderedRows
        ELSE RenderedRows' = RenderedRows]_vars

\* under a non-blank search the newest user heads a table of several rows
C4_Witness ==
  /\ adds # <<>>
  /\ ~AllWhitespace(search)
  /\ Len(RenderedRows) >= 2
  /\ RenderedRows[1] = RowOf(adds[Len(adds)].user)

(***************************************************************************)
(* C7.  After a failed collection fetch the collection is empty and the    *)
(* view shows "No users found." while no further add-user occurs.          *)
(***************************************************************************)
NoUsersFound == [kind |-> "message", text |-> "No users found."]

AddedNewestFirst == [i \in 1..Len(adds) |-> adds[Len(adds) + 1 - i].user]

\* C7 as claimed: whatever add-user submits preceded the failure
C7_EmptyAfterFailure ==
  (fetchState = "failed" /\ \A i \in 1..Len(adds) : adds[i].fetchWas # "failed")
    => users = <<>> /\ UsersTable(filteredUsers) = NoUsersFound

\* C7 as amended: after the failure the collection holds exactly the users
\* added in this mount, so it is empty and "No users found." shows when and
\* only when no add-user submit occurred, before or after the failure
C7_OnlyAddedAfterFailure ==
  fetchState = "failed" =>
    /\ users = AddedNewestFirst
    /\ adds = <<>> => UsersTable(filteredUsers) = NoUsersFound
    /\ users = <<>> <=> adds = <<>>

\* the fetch failed in a mount without adds, while the user searches with the form open
C7_Witness ==
  /\ fetchState = "failed"
  /\ adds = <<>>
  /\ open
  /\ ~AllWhitespace(search)
  /\ UsersTable(filteredUsers) = NoUsersFound

(***************************************************************************)
(* C8.  If no two add-user submits happen in the same clock instant, the   *)
(* ids in the session collection are pairwise distinct in every state.     *)
(***************************************************************************)
DistinctInstants ==
  \A i, j \in 1..Len(adds) : i # j => adds[i].at # adds[j].at

C8_UniqueIds ==
  DistinctInstants =>
    \A i, j \in 1..Len(users) : i # j => users[i].id # users[j].id

\* two adds at different instants sit in front of fetched users
C8_Witness ==
  /\ Len(adds) >= 2
  /\ DistinctInstants
  /\ fetchState = "resolved"
  /\ Len(users) >= 4
  /\ users[1].id = adds[Len(adds)].at

(***************************************************************************)
(* C10.  A user added by a successful submit stays in the collection in    *)
(* every later state of the mount.                                         *)
(***************************************************************************)
InCollection(u) == \E i \in 1..Len(users) : users[i] = u

\* C10 as claimed: for every interleaving with the fetch
C10_NeverDropped == \A i \in 1..Len(adds) : InCollection(adds[i].user)

\* C10 as amended: unless the user was added while the fetch was pending and
\* the fetch has resolved since (the response replaces the collection)
C10_DroppedOnlyByResponse ==
  \A i \in 1..Len(adds) :
    ~(adds[i].fetchWas = "pending" /\ fetchState = "resolved")
      => InCollection(adds[i].user)

\* one user added before the response is gone, one added after it is kept
C10_Witness ==
  /\ Len(adds) >= 2
  /\ fetchState = "resolved"
  /\ adds[1].fetchWas = "pending"
  /\ ~InCollection(adds[1].user)
  /\ adds[2].fetchWas = "resolved"
  /\ InCollection(adds[2].user)

(***************************************************************************)
(* C5.  Each missing optional field renders as the placeholder dash: the   *)
(* company in the table; company, phone, website and a null address on the *)
(* detail page, each independently.                                        *)
(***************************************************************************)
C5_ListDash ==
  \A i \in 1..Len(users) :
    Falsy(Get(users[i], "company")) => UsersTable(users).rows[i].company = Dash

\* the part that holds on the detail page: the three rows built by DetailRow
C5_DetailRowsDash ==
  user # Null =>
    LET page == UserDetailsPage(user)
    IN /\ Get(user, "phone") = Undefined => page.phone = Dash
       /\ Get(user, "website") = Undefined => page.website = Dash
       /\ "address" \notin DOMAIN user => page.address = Dash

C5_MissingRenderDash ==
  /\ C5_ListDash
  /\ user # Null =>
       LET page == UserDetailsPage(user)
       IN /\ CompanyName(user) = Undefined => page.company = Dash
          /\ Get(user, "phone") = Undefined => page.phone = Dash
          /\ Get(user, "website") = Undefined => page.website = Dash
          /\ "address" \notin DOMAIN user => page.address = Dash

(***************************************************************************)
(* C6.  Mounted for an id the directory lacks, the detail page shows       *)
(* "Loading..." in every later state.                                      *)
(***************************************************************************)
Loading == [kind |-> "message", text |-> "Loading..."]

MountedForMissingId == idChanges = 0 /\ id \notin RemoteIds /\ id # 0

\* C6 as claimed: for a rejection, a fetch that never resolves, and a 404 with body {}
C6_LoadingForever == MountedForMissingId => UserDetailsPage(user) = Loading

\* C6 as amended: for a rejection and a fetch that never resolves; once a 404
\* with body {} is delivered the detail layout shows with empty name and
\* company and a dash in each row
C6_LoadingUnlessBody ==
  MountedForMissingId =>
    IF \E s \in settled : s.how = "json"
      THEN UserDetailsPage(user) =
             [kind |-> "detail", name |-> <<>>, company |-> <<>>, email |-> Dash,
              phone |-> Dash, website |-> Dash, address |-> Dash]
      ELSE UserDetailsPage(user) = Loading

\* the fetch for the missing id was rejected and the page still loads
C6_Witness ==
  /\ MountedForMissingId
  /\ inflight = {}
  /\ \E s \in settled : s.how = "rejected"
  /\ UserDetailsPage(user) = Loading

(***************************************************************************)
(* C9.  One single-record fetch on mount and one per id change, none       *)
(* cancelled or guarded: a response for an earlier id can be the one       *)
(* displayed under a later id, and an id change leaves the loaded user on  *)
(* display.                                                                *)
(***************************************************************************)
C9_OneFetchPerIdNoReset ==
  /\ [](Issued = 1 + idChanges)
  /\ [][id' # id =>
         /\ user' = user
         /\ Cardinality(inflight') = Cardinality(inflight) + 1
         /\ \E r \in inflight' \ inflight : r.id = id']_vars
  /\ [][UserDetailsPage(user) # Loading => UserDetailsPage(user') # Loading]_vars

\* every fetch has settled, the response for the route's id among them, and the
\* user on display is the record of another id
C9_Witness ==
  /\ inflight = {}
  /\ id \in RemoteIds
  /\ \E s \in settled : s.id = id /\ s.how = "json"
  /\ \E a \in RemoteIds \ {id} : user = RemoteRecord(a)
  /\ UserDetailsPage(user).kind = "detail"

=============================================================================
